---- MODULE Spec2Model ----
(***************************************************************************)
(* The score server of my-quiz-app (server.js): backend selection at       *)
(* startup, the score repository over Postgres / Firestore / S3 / local    *)
(* file, the in-memory completion set, the submission, status and clear    *)
(* handlers and the WebSocket broadcast.                                   *)
(*                                                                         *)
(* Node runs one handler at a time: the code between two awaits is one     *)
(* atomic step.  A call to a remote backend is split in the step that      *)
(* issues it, the step in which the backend executes it, and the step in   *)
(* which the awaiting handler resumes.  A read's execution and the         *)
(* resumption that only fills request-local variables are one step.  The   *)
(* local-file branches use the synchronous fs API and have no await inside *)
(* them, so a whole handler is one step when the file is the backend.      *)
(***************************************************************************)
EXTENDS Integers, Sequences, FiniteSets, TLC

\* ---------------------------------------------------------------- bounds
MaxReq == 3          \* requests received in one run
MaxInFlight == 2     \* requests in flight at once
MaxClock == 2        \* Date.now() takes the values 1..MaxClock
MaxClients == 2      \* WebSocket clients
MaxReqSeq == 2       \* requests received in a run that serves them one at a time
MaxHttp == 1         \* requests of a run followed through the auth middleware
MaxText == 3         \* characters in a text field of an exported record
MaxField == 1        \* score and answeredQuestions range over 0..MaxField

\* ---------------------------------------------------------------- values
Null == -1           \* JavaScript null / undefined in a numeric field
NoName == "<undefined>"   \* payload.name undefined (or no payload at all)
Names == {"alice", "bob"}

Falsy(v) == v = Null \/ v = 0          \* !v for a numeric field
OrNull(v) == IF Falsy(v) THEN Null ELSE v      \* v || null
OrElse(v, d) == IF Falsy(v) THEN d ELSE v      \* v || d
FalsyName(n) == n = NoName \/ n = ""   \* !payload.name

\* A submitted payload / stored Score Record.  email, totalQuestions,
\* timeTaken, reason and date are handled exactly like score and
\* answeredQuestions by every branch and are left out.
Record(n, i, s, a, r) ==
    [name |-> n, id |-> i, score |-> s, answeredQuestions |-> a, receivedAt |-> r]
NoRecord == Record(NoName, Null, Null, Null, Null)

\* A store: a Postgres table, a Firestore collection, the S3 object
\* scores.json or the local file scores.json.  st = "none": the object or
\* file does not exist; "corrupt": its body is not JSON.
Store(st, arr) == [st |-> st, arr |-> arr]
EmptyStore == Store("ok", <<>>)
NoStore == Store("none", <<>>)

\* ------------------------------------------------------------ sequences
RECURSIVE SeqSome(_, _)
SeqSome(s, n) ==     \* arr.some(s => String(s.name) === String(name))
    IF s = <<>> THEN FALSE
    ELSE IF Head(s).name = n THEN TRUE ELSE SeqSome(Tail(s), n)

RECURSIVE InsertSorted(_, _)
InsertSorted(s, r) ==
    IF s = <<>> THEN <<r>>
    ELSE IF r.receivedAt < Head(s).receivedAt THEN <<r>> \o s
    ELSE <<Head(s)>> \o InsertSorted(Tail(s), r)

RECURSIVE OrderByReceivedAt(_)
OrderByReceivedAt(s) ==      \* ORDER BY receivedAt ASC / orderBy('receivedAt','asc')
    IF s = <<>> THEN <<>>
    ELSE InsertSorted(OrderByReceivedAt(SubSeq(s, 1, Len(s) - 1)), s[Len(s)])

RECURSIVE Without(_, _)
Without(s, ids) ==           \* the rows of s whose id is not in ids
    IF s = <<>> THEN <<>>
    ELSE IF Head(s).id \in ids THEN Without(Tail(s), ids)
    ELSE <<Head(s)>> \o Without(Tail(s), ids)

RECURSIVE Replace(_, _)
Replace(s, r) ==             \* r in the place of the row with r's id
    IF s = <<>> THEN <<>>
    ELSE IF Head(s).id = r.id THEN <<r>> \o Tail(s)
    ELSE <<Head(s)>> \o Replace(Tail(s), r)

Ids(s) == {s[k].id : k \in 1..Len(s)}

\* ------------------------------------------------------------ variables
VARIABLES
    env,             \* process.env and what the host has installed
    booted,          \* the module's top level has run
    pool,            \* pool !== null
    firestore,       \* firestore !== null
    s3Client,        \* s3Client !== null
    initFailed,      \* the candidates whose client failed to initialise
    ensured,         \* ensureTable(): "none", "pending", "done" or "failed"
    now,             \* Date.now()
    remote,          \* the contents of the remote store
    file,            \* the contents of the local file scores.json
    completedUsers,  \* the in-memory Set
    reqs,            \* the requests received, in order of arrival
    clients,         \* wss.clients: readyState of each
    sent             \* the envelopes sent to WebSocket clients, in order

vars == <<env, booted, pool, firestore, s3Client, initFailed, ensured, now,
          remote, file, completedUsers, reqs, clients, sent>>

handles == <<env, booted, pool, firestore, s3Client, initFailed, ensured>>

\* ---------------------------------------------------------------- startup
Envs ==
    [DATABASE_URL : {"unset", "valid", "invalid"},
     FIREBASE_SERVICE_ACCOUNT : {"unset", "json", "base64", "garbage"},
     S3_BUCKET : BOOLEAN, AWS_REGION : BOOLEAN, AWS_KEYS : BOOLEAN,
     s3sdk : BOOLEAN, firebaseAdmin : BOOLEAN, ADMIN : {"unset"}]

\* One healthy configuration per backend, and one with every variable set.
Env(db, fb, s3) ==
    [DATABASE_URL |-> db, FIREBASE_SERVICE_ACCOUNT |-> fb,
     S3_BUCKET |-> s3, AWS_REGION |-> s3, AWS_KEYS |-> s3,
     s3sdk |-> TRUE, firebaseAdmin |-> TRUE, ADMIN |-> "unset"]
EnvsHealthy ==
    {Env("valid", "unset", FALSE), Env("unset", "json", FALSE),
     Env("unset", "unset", TRUE), Env("unset", "unset", FALSE),
     Env("valid", "base64", TRUE)}

\* server.js 10-19: s3Client is created when S3_BUCKET is set and the SDK loads.
S3ClientCreated(e) == e.S3_BUCKET /\ e.s3sdk

\* server.js 24-42: JSON.parse of the variable, then of its base64 decoding;
\* a missing library or an unparseable value leaves firestore null.
CredsParse(v) == v \in {"json", "base64"}
FirestoreCreated(e) ==
    /\ e.FIREBASE_SERVICE_ACCOUNT # "unset"
    /\ e.firebaseAdmin
    /\ CredsParse(e.FIREBASE_SERVICE_ACCOUNT)

\* server.js 49: new Pool(...) whenever DATABASE_URL is set; the constructor
\* opens no connection, a bad connection string shows at the first query.
PoolCreated(e) == e.DATABASE_URL # "unset"

\* The candidates that were configured and whose client cannot serve.
InitFailures(e) ==
    {c \in {"postgres"} : e.DATABASE_URL = "invalid"}
    \cup {c \in {"firestore"} :
            e.FIREBASE_SERVICE_ACCOUNT # "unset" /\ ~FirestoreCreated(e)}
    \cup {c \in {"s3"} : e.S3_BUCKET /\ ~e.s3sdk}

InitWith(E) ==
    /\ env \in E
    /\ booted = FALSE
    /\ pool = FALSE /\ firestore = FALSE /\ s3Client = FALSE
    /\ initFailed = {}
    /\ ensured = "none"
    /\ now = 1
    /\ remote = IF ~PoolCreated(env) /\ ~FirestoreCreated(env) THEN NoStore ELSE EmptyStore
    /\ file = NoStore
    /\ completedUsers = {}
    /\ reqs = <<>>
    /\ clients = [c \in 1..MaxClients |-> "absent"]
    /\ sent = <<>>

\* server.js 8-49 and 276-277, 506-508: the top level of the module.
Startup ==
    /\ ~booted
    /\ booted' = TRUE
    /\ s3Client' = S3ClientCreated(env)
    /\ firestore' = FirestoreCreated(env)
    /\ pool' = PoolCreated(env)
    /\ initFailed' = InitFailures(env)
    /\ ensured' = IF PoolCreated(env) THEN "pending" ELSE "none"
    /\ UNCHANGED <<env, now, remote, file, completedUsers, reqs, clients, sent>>

\* The CREATE TABLE of ensureTable returns or fails (server.js 135-152); the
\* call at 277 has a catch that logs, so the process keeps running.
EnsureTableUnhandled == FALSE
EnsureTableCaught == TRUE
EnsureTableReturns(ok) ==
    /\ booted /\ ensured = "pending"
    /\ ensured' = IF ok /\ env.DATABASE_URL = "valid" THEN "done" ELSE "failed"
    /\ booted' = IF ok /\ env.DATABASE_URL = "valid" THEN TRUE ELSE EnsureTableCaught
    /\ UNCHANGED <<env, pool, firestore, s3Client, initFailed, now, remote, file,
                   completedUsers, reqs, clients, sent>>

\* ----------------------------------------------------- backend selection
\* Each function tests the three handles itself, in its own if-chain.
readScoresBackend ==         \* server.js 156, 162, 177, 196
    IF pool THEN "postgres" ELSE IF firestore THEN "firestore"
    ELSE IF s3Client THEN "s3" ELSE "file"
insertScoreBackend ==        \* server.js 207, 216, 235, 262
    IF pool THEN "postgres" ELSE IF firestore THEN "firestore"
    ELSE IF s3Client THEN "s3" ELSE "file"
\* A chain that tests the handles in another order.
firestoreFirstBackend ==
    IF firestore THEN "firestore" ELSE IF pool THEN "postgres"
    ELSE IF s3Client THEN "s3" ELSE "file"
quizStatusBackend ==         \* server.js 336, 342, 348, 366
    IF pool THEN "postgres" ELSE IF firestore THEN "firestore"
    ELSE IF s3Client THEN "s3" ELSE "file"
clearScoresBackend ==        \* server.js 377, 380, 386, 389
    IF pool THEN "postgres" ELSE IF firestore THEN "firestore"
    ELSE IF s3Client THEN "s3" ELSE "file"
storageInfoMode ==           \* server.js 442-445
    IF pool THEN "postgres" ELSE IF firestore THEN "firestore"
    ELSE IF s3Client THEN "s3" ELSE "file"

\* Whether backend b can answer at all.  A pool made from a bad connection
\* string and an S3 client without region or credentials reject every call.
Reachable(b) ==
    CASE b = "postgres" -> env.DATABASE_URL = "valid"
      [] b = "s3" -> env.AWS_REGION /\ env.AWS_KEYS
      [] OTHER -> TRUE
\* A call to backend b succeeds: ok is the network's (or the disk's) answer
\* to this one call.
CallOK(b, ok) == ok /\ Reachable(b)

\* -------------------------------------------------------- score repository
\* readScores (server.js 154-204) against backend b: threw = the promise
\* rejects, rows = the array it resolves to.
ReadResult(threw, rows) == [threw |-> threw, rows |-> rows]
readScores(b, ok) ==
    CASE b = "postgres" ->
            IF CallOK(b, ok) THEN ReadResult(FALSE, OrderByReceivedAt(remote.arr))
            ELSE ReadResult(TRUE, <<>>)
      [] b = "firestore" ->
            IF CallOK(b, ok) THEN ReadResult(FALSE, OrderByReceivedAt(remote.arr))
            ELSE ReadResult(FALSE, <<>>)
      [] b = "s3" ->
            IF CallOK(b, ok) /\ remote.st = "ok" THEN ReadResult(FALSE, remote.arr)
            ELSE ReadResult(FALSE, <<>>)
      [] OTHER ->
            IF CallOK(b, ok) /\ file.st = "ok" THEN ReadResult(FALSE, file.arr)
            ELSE ReadResult(FALSE, <<>>)

\* The values array of the INSERT (server.js 210).
InsertVals(score) ==
    Record(score.name, score.id, OrNull(score.score),
           OrNull(score.answeredQuestions), OrNull(score.receivedAt))

\* A write whose failure is swallowed.
WriteResultSwallowed(ok, st) == [ok |-> TRUE, store |-> st]
\* insertScore's file branch (server.js 262-273): [ok, file after].
WriteResult(ok, st) == [ok |-> ok, store |-> st]
\* A file branch that writes back an array read before the others' writes.
insertScoreFileStale(score, ok) == WriteResult(TRUE, Store("ok", <<score>>))
insertScoreFile(score, ok) ==
    IF ~CallOK("file", ok) \/ file.st = "corrupt" THEN WriteResult(FALSE, file)
    ELSE WriteResult(TRUE, Store("ok", Append(file.arr, score)))

\* The INSERT of insertScore's Postgres branch (server.js 208-212) executed
\* against table t: the primary key rejects a row whose id is in the table.
pgInsert(t, score) ==
    IF score.id \in Ids(t.arr) THEN WriteResult(FALSE, t)
    ELSE WriteResult(TRUE, Store("ok", Append(t.arr, InsertVals(score))))

\* doc(String(score.id)).set(score) (server.js 218-220) against collection t.
firestoreSet(t, score) ==
    WriteResult(TRUE, Store("ok", IF score.id \in Ids(t.arr) THEN Replace(t.arr, score)
                                  ELSE Append(t.arr, score)))

\* The array insertScore's S3 branch builds from the GET (server.js 238-252).
s3ReadForInsert(score, ok) ==
    Append(IF CallOK("s3", ok) /\ remote.st = "ok" THEN remote.arr ELSE <<>>, score)

\* A PUT that adds to the object what the caller pushed instead of
\* replacing its body.
s3PutMerging(t, arr) ==
    WriteResult(TRUE, Store("ok", IF arr = <<>> THEN <<>>
                                  ELSE Append(t.arr, arr[Len(arr)])))

\* PutObjectCommand with body arr (server.js 253, 388) against object t.
s3Put(t, arr) == WriteResult(TRUE, Store("ok", arr))

\* DELETE FROM scores (server.js 379).
pgDeleteAll(t) == WriteResult(TRUE, EmptyStore)

\* batch.commit() of the deletes of the snapshot's documents (server.js 382-385).
firestoreBatchDelete(t, snapshot) ==
    WriteResult(TRUE, Store("ok", Without(t.arr, Ids(snapshot))))

\* clear-scores' file branch (server.js 391): [ok, file after].
clearFile(ok) == IF CallOK("file", ok) THEN WriteResult(TRUE, EmptyStore)
                 ELSE WriteResult(FALSE, file)

\* ---------------------------------------------------------------- requests
InFlight(r) == r.pc # "done"
NoneInFlight == \A k \in 1..Len(reqs) : ~InFlight(reqs[k])

\* A request as received.  payload is the body as sent, rec the record after
\* the handler's assignments, arr the handler's local array, result the
\* outcome of its executed write; backend, appended, alone, reset and before
\* record what happened: the backend its calls went to, whether insertScore
\* was invoked, whether no other request was in flight while it was, whether
\* completedUsers.clear() ran after it was received, what readScores would
\* have returned when it was received, and whether one of its calls failed.
NoHttp == [method |-> "", path |-> <<>>, cookie |-> "none", authorization |-> "none",
           client |-> "script"]
NewReq(kind, name, payload) ==
    [kind |-> kind, pc |-> "done", name |-> name, payload |-> payload, http |-> NoHttp,
     rec |-> payload, arr |-> <<>>, result |-> "none", resp |-> "none",
     rows |-> <<>>, backend |-> "none", appended |-> FALSE, setCookie |-> <<>>,
     alone |-> NoneInFlight, reset |-> FALSE, before |-> <<>>,
     faulted |-> FALSE]

Receive(r) ==
    reqs' = [k \in 1..Len(reqs) |->
                IF InFlight(reqs[k]) THEN [reqs[k] EXCEPT !.alone = FALSE]
                ELSE reqs[k]] \o <<r>>

Set(i, r) == reqs' = [reqs EXCEPT ![i] = r]

\* The server takes another request: lim bounds the requests of a run and
\* those in flight at once.
Lim(n, f) == [n |-> n, f |-> f]
CanReceive(lim) ==
    /\ booted
    /\ Len(reqs) < lim.n
    /\ Cardinality({k \in 1..Len(reqs) : InFlight(reqs[k])}) < lim.f

\* ------------------------------------------------------------ notification
\* wss.clients is a Set, visited in the order the clients connected: a
\* client connects behind all those present, so the lower index is visited
\* first.  "THROWS": readyState is OPEN and client.send throws.
SendThrows(c) == clients[c] = "THROWS"
OpenClients == {c \in 1..MaxClients : clients[c] \in {"OPEN", "THROWS"}}
\* forEach reaches c: no send to an earlier open client has thrown.
Visited(c) == \A d \in OpenClients : d < c => ~SendThrows(d)
Tried == {c \in OpenClients : Visited(c)}                 \* send was called
Delivered == {c \in Tried : ~SendThrows(c)}               \* send returned
Thrown == \E c \in OpenClients : SendThrows(c)
\* An envelope published: for whom send was called, to whom it was
\* delivered, who was open, and whether the publish threw.
Envelope(type, payload) ==
    [type |-> type, payload |-> payload, tried |-> Tried, to |-> Delivered,
     open |-> OpenClients, threw |-> Thrown]

\* broadcastNewScore (server.js 125-132)
broadcastNewScore(scoreObj) == Append(sent, Envelope("new-score", scoreObj))
\* the clear handler's broadcast (server.js 398-402)
broadcastClear == Append(sent, Envelope("clear-scores", NoRecord))

\* ------------------------------------------------------- POST /api/scores
\* Variants of the handler's steps with one plausible slip each.
InvalidPayloadUndefinedOnly(payload) == payload.name = NoName
MarkCompletedNever(name) == completedUsers
RollBackMark(set, name) == set \ {name}
BroadcastUncaught(threw) == IF threw THEN "500" ELSE "success"
ForgetPersistFailure(r) == [r EXCEPT !.pc = "done"]

InvalidPayload(payload) == FalsyName(payload.name)        \* server.js 302
MarkCompleted(name) == completedUsers \cup {name}         \* server.js 305
AssignIdentity(payload, t) ==                             \* server.js 307-308
    [payload EXCEPT !.id = OrElse(payload.id, t),
                    !.receivedAt = OrElse(payload.receivedAt, t)]
AfterPersistFailure(set, name) == set                     \* server.js 312-315, 318-321
\* The broadcast is wrapped in its own try / catch (server.js 316-317,
\* 398-407): the response is the same whether it threw or not.
AfterBroadcast(threw) == "success"
\* insertScore returned false or threw: the handler answers 500
\* (server.js 312-315, 318-321).
AnswerPersistFailure(r) == [r EXCEPT !.pc = "done", !.resp = "500"]

\* server.js 300-311 and insertScore up to its first await; the whole
\* handler when the file is the backend.  t is Date.now(): the clock is read
\* only here, so the time that passed since its last reading is chosen here.
SubmitScore(payload, t, ok, lim) ==
    /\ CanReceive(lim)
    /\ now' = t
    /\ UNCHANGED <<handles, remote, clients>>
    /\ LET r0 == NewReq("submit", payload.name, payload) IN
       IF InvalidPayload(payload)
       THEN /\ Receive([r0 EXCEPT !.resp = "400"])
            /\ UNCHANGED <<file, completedUsers, sent>>
       ELSE LET score == AssignIdentity(payload, t)
                b == insertScoreBackend
                r1 == [r0 EXCEPT !.rec = score, !.appended = TRUE, !.backend = b,
                                 !.before = readScores(readScoresBackend, TRUE).rows]
            IN  CASE b \in {"postgres", "firestore"} ->
                       /\ completedUsers' = MarkCompleted(payload.name)
                       /\ Receive([r1 EXCEPT !.pc = "write"])
                       /\ UNCHANGED <<file, sent>>
                  [] b = "s3" ->
                       /\ completedUsers' = MarkCompleted(payload.name)
                       /\ Receive([r1 EXCEPT !.pc = "read"])
                       /\ UNCHANGED <<file, sent>>
                  [] OTHER ->
                       LET w == insertScoreFile(score, ok) IN
                       /\ file' = w.store
                       /\ IF w.ok
                          THEN /\ completedUsers' = MarkCompleted(payload.name)
                               /\ sent' = broadcastNewScore(score)
                               /\ Receive([r1 EXCEPT !.resp = AfterBroadcast(Thrown),
                                                     !.result = "ok"])
                          ELSE /\ completedUsers' =
                                    AfterPersistFailure(MarkCompleted(payload.name), payload.name)
                               /\ sent' = sent
                               /\ Receive(AnswerPersistFailure(
                                              [r1 EXCEPT !.result = "err",
                                                         !.faulted = ~CallOK(b, ok)]))

\* The GET of insertScore's S3 branch returns; the handler pushes and issues
\* the PUT (server.js 238-253).
InsertGetReturns(i, ok) ==
    /\ reqs[i].kind = "submit" /\ reqs[i].pc = "read"
    /\ Set(i, [reqs[i] EXCEPT !.arr = s3ReadForInsert(reqs[i].rec, ok), !.pc = "write",
                              !.faulted = ~CallOK("s3", ok)])
    /\ UNCHANGED <<handles, now, remote, file, completedUsers, clients, sent>>

\* The backend executes the write a request is waiting for.
ExecWrite(r, ok) ==
    IF ~CallOK(r.backend, ok) THEN WriteResult(FALSE, remote)
    ELSE CASE r.kind = "submit" /\ r.backend = "postgres" -> pgInsert(remote, r.rec)
           [] r.kind = "submit" /\ r.backend = "firestore" -> firestoreSet(remote, r.rec)
           [] r.kind = "submit" /\ r.backend = "s3" -> s3Put(remote, r.arr)
           [] r.kind = "clear" /\ r.backend = "postgres" -> pgDeleteAll(remote)
           [] r.kind = "clear" /\ r.backend = "firestore" -> firestoreBatchDelete(remote, r.arr)
           [] r.kind = "clear" /\ r.backend = "s3" -> s3Put(remote, <<>>)
           [] OTHER -> WriteResult(FALSE, remote)

BackendExecutes(i, ok) ==
    /\ reqs[i].pc = "write"
    /\ LET w == ExecWrite(reqs[i], ok) IN
       /\ remote' = w.store
       /\ Set(i, [reqs[i] EXCEPT !.pc = "wrote",
                                 !.result = IF w.ok THEN "ok" ELSE "err",
                                 !.faulted = @ \/ ~CallOK(reqs[i].backend, ok)])
    /\ UNCHANGED <<handles, now, file, completedUsers, clients, sent>>

\* insertScore has returned or thrown; server.js 311-321.
SubmitReturns(i) ==
    /\ reqs[i].kind = "submit" /\ reqs[i].pc = "wrote"
    /\ IF reqs[i].result = "ok"
       THEN /\ sent' = broadcastNewScore(reqs[i].rec)
            /\ Set(i, [reqs[i] EXCEPT !.pc = "done", !.resp = AfterBroadcast(Thrown)])
            /\ UNCHANGED completedUsers
       ELSE /\ completedUsers' = AfterPersistFailure(completedUsers, reqs[i].name)
            /\ Set(i, AnswerPersistFailure(reqs[i]))
            /\ UNCHANGED sent
    /\ UNCHANGED <<handles, now, remote, file, clients>>

\* ------------------------------------------------ GET /api/quiz-status/:name
InMemoryNever(name) == FALSE
InMemory(name) == name \in completedUsers                 \* server.js 333
Completed(found) == IF found THEN "true" ELSE "false"     \* res.json({completed})

\* The existence query against backend b (server.js 337-338, 343-344,
\* 350-362): the answer, "500" when the handler's catch answers, "fallback"
\* when the S3 branch falls through to the last branch.
existsQuery(b, name, ok) ==
    CASE b \in {"postgres", "firestore"} ->
            IF CallOK(b, ok) THEN Completed(SeqSome(remote.arr, name)) ELSE "500"
      [] OTHER ->
            IF CallOK("s3", ok) /\ remote.st = "ok"
            THEN Completed(SeqSome(remote.arr, name)) ELSE "fallback"

\* The handler's last branch (server.js 366-367): readScores(), then some().
fallbackQuery(b, name, ok) ==
    LET rd == readScores(b, ok) IN
    IF rd.threw THEN "500" ELSE Completed(SeqSome(rd.rows, name))

\* server.js 327-348 up to the first await; the whole handler when the name
\* is in memory or the file is read.
QuizStatus(name, ok, lim) ==
    /\ CanReceive(lim)
    /\ LET r0 == NewReq("status", name, NoRecord)
           b == quizStatusBackend
       IN  IF InMemory(name) THEN Receive([r0 EXCEPT !.resp = "true"])
           ELSE IF b # "file" THEN Receive([r0 EXCEPT !.pc = "read", !.backend = b])
           ELSE IF readScoresBackend # "file"
                THEN Receive([r0 EXCEPT !.pc = "read2", !.backend = readScoresBackend])
           ELSE Receive([r0 EXCEPT
                    !.backend = "file", !.faulted = ~CallOK("file", ok),
                    !.resp = fallbackQuery("file", name, ok)])
    /\ UNCHANGED <<handles, now, remote, file, completedUsers, clients, sent>>

\* The existence query returns (server.js 337-338, 343-344, 350-362).
StatusQueryReturns(i, ok) ==
    /\ reqs[i].kind = "status" /\ reqs[i].pc = "read"
    /\ LET r == [reqs[i] EXCEPT !.faulted = ~CallOK(reqs[i].backend, ok)]
           a == existsQuery(r.backend, r.name, ok)
       IN  IF a = "fallback"
           THEN Set(i, [r EXCEPT !.pc = "read2", !.backend = readScoresBackend])
           ELSE Set(i, [r EXCEPT !.pc = "done", !.resp = a])
    /\ UNCHANGED <<handles, now, remote, file, completedUsers, clients, sent>>

\* readScores() of the handler's last branch returns (server.js 366-367).
StatusFallbackReturns(i, ok) ==
    /\ reqs[i].kind = "status" /\ reqs[i].pc = "read2"
    /\ Set(i, [reqs[i] EXCEPT !.pc = "done",
                              !.faulted = @ \/ ~CallOK(reqs[i].backend, ok),
                              !.resp = fallbackQuery(reqs[i].backend, reqs[i].name, ok)])
    /\ UNCHANGED <<handles, now, remote, file, completedUsers, clients, sent>>

\* --------------------------------------------------- POST /api/clear-scores
\* What the handler does once the backend is cleared (server.js 394-407).
ClearNothing == completedUsers
ClearCompleted == {}                                       \* server.js 395
MarkReset == [k \in 1..Len(reqs) |-> [reqs[k] EXCEPT !.reset = TRUE]]

\* server.js 375-392 up to the first await; the whole handler for the file.
ClearScoresFrom(r0, ok, lim) ==
    /\ CanReceive(lim)
    /\ UNCHANGED <<handles, now, remote, clients>>
    /\ LET b == clearScoresBackend
       IN  CASE b \in {"postgres", "s3"} ->
                  /\ Receive([r0 EXCEPT !.pc = "write", !.backend = b,
                                        !.before = readScores(readScoresBackend, TRUE).rows])
                  /\ UNCHANGED <<file, completedUsers, sent>>
             [] b = "firestore" ->
                  /\ Receive([r0 EXCEPT !.pc = "read", !.backend = b,
                                        !.before = readScores(readScoresBackend, TRUE).rows])
                  /\ UNCHANGED <<file, completedUsers, sent>>
             [] OTHER ->
                  LET w == clearFile(ok) IN
                  /\ file' = w.store
                  /\ IF w.ok
                     THEN /\ completedUsers' = ClearCompleted
                          /\ sent' = broadcastClear
                          /\ reqs' = MarkReset \o
                                <<[r0 EXCEPT !.backend = b, !.result = "ok",
                                             !.resp = AfterBroadcast(Thrown), !.reset = TRUE,
                                             !.before = readScores(readScoresBackend, TRUE).rows]>>
                     ELSE /\ UNCHANGED <<completedUsers, sent>>
                          /\ Receive([r0 EXCEPT !.backend = b, !.result = "err",
                                                !.resp = "500", !.faulted = TRUE])

ClearScores(ok, lim) == ClearScoresFrom(NewReq("clear", NoName, NoRecord), ok, lim)

\* collection('scores').get() returns; the batch of deletes is committed
\* (server.js 382-385).
ClearSnapshotReturns(i, ok) ==
    /\ reqs[i].kind = "clear" /\ reqs[i].pc = "read"
    /\ IF CallOK(reqs[i].backend, ok)
       THEN Set(i, [reqs[i] EXCEPT !.arr = remote.arr, !.pc = "write"])
       ELSE Set(i, [reqs[i] EXCEPT !.pc = "done", !.result = "err", !.resp = "500",
                                   !.faulted = TRUE])
    /\ UNCHANGED <<handles, now, remote, file, completedUsers, clients, sent>>

\* The backend call has returned or thrown (server.js 394-411).
ClearReturns(i) ==
    /\ reqs[i].kind = "clear" /\ reqs[i].pc = "wrote"
    /\ IF reqs[i].result = "ok"
       THEN /\ completedUsers' = ClearCompleted
            /\ sent' = broadcastClear
            /\ reqs' = [MarkReset EXCEPT ![i].pc = "done", ![i].resp = AfterBroadcast(Thrown)]
       ELSE /\ Set(i, [reqs[i] EXCEPT !.pc = "done", !.resp = "500"])
            /\ UNCHANGED <<completedUsers, sent>>
    /\ UNCHANGED <<handles, now, remote, file, clients>>

\* ------------------------------- GET /api/scores, GET /api/export-scores
\* server.js 279-281, 415-417 up to the await of readScores.
ListScoresFrom(r0, ok, lim) ==
    /\ CanReceive(lim)
    /\ LET b == readScoresBackend
       IN  IF b # "file" THEN Receive([r0 EXCEPT !.pc = "read", !.backend = b])
           ELSE Receive([r0 EXCEPT !.backend = b, !.resp = "rows",
                                   !.faulted = ~CallOK(b, ok),
                                   !.rows = readScores(b, ok).rows])
    /\ UNCHANGED <<handles, now, remote, file, completedUsers, clients, sent>>

ListScores(ok, lim) == ListScoresFrom(NewReq("list", NoName, NoRecord), ok, lim)

\* readScores returns or throws (server.js 281-298).
ListReturns(i, ok) ==
    /\ reqs[i].kind = "list" /\ reqs[i].pc = "read"
    /\ LET r == [reqs[i] EXCEPT !.faulted = ~CallOK(reqs[i].backend, ok)]
           rd == readScores(r.backend, ok)
       IN  IF rd.threw THEN Set(i, [r EXCEPT !.pc = "done", !.resp = "500"])
           ELSE Set(i, [r EXCEPT !.pc = "done", !.resp = "rows", !.rows = rd.rows])
    /\ UNCHANGED <<handles, now, remote, file, completedUsers, clients, sent>>

\* ---------------------------------------------------- GET /api/export-scores
\* A text is a sequence of characters; the CSV is the text the handler sends.
Quote == "\""
Comma == ","
NewLine == "\n"
headers ==                                                   \* server.js 420
    <<"id", "name", "email", "score", "answeredQuestions", "totalQuestions",
      "timeTaken", "reason", "receivedAt", "date">>

RECURSIVE DoubleQuotes(_)
DoubleQuotes(v) ==                                           \* replace(/"/g, '""')
    IF v = <<>> THEN <<>>
    ELSE (IF Head(v) = Quote THEN <<Quote, Quote>> ELSE <<Head(v)>>) \o DoubleQuotes(Tail(v))

RECURSIVE Join(_, _)
Join(parts, sep) ==                                          \* parts.join(sep)
    IF parts = <<>> THEN <<>>
    ELSE IF Len(parts) = 1 THEN parts[1]
    ELSE parts[1] \o <<sep>> \o Join(Tail(parts), sep)

\* r[h], undefined when the row has no property h.  NoText: null or undefined
\* where a text may stand.
NoText == <<"<null>">>
Get(r, h) == IF h \in DOMAIN r THEN r[h] ELSE NoText
csvField(r, h) ==                                            \* server.js 423-424
    <<Quote>> \o (IF Get(r, h) = NoText THEN <<>> ELSE DoubleQuotes(Get(r, h))) \o <<Quote>>
csvRow(r) == Join([k \in 1..Len(headers) |-> csvField(r, headers[k])], Comma)
toCsv(arr) ==                                                \* server.js 421-426
    Join(<<Join([k \in 1..Len(headers) |-> <<headers[k]>>], Comma)>>
         \o [k \in 1..Len(arr) |-> csvRow(arr[k])], NewLine)

\* The table is created with unquoted column names (server.js 137-150), which
\* Postgres folds to lower case; SELECT * returns the rows under those names.
Fold(h) ==
    CASE h = "answeredQuestions" -> "answeredquestions"
      [] h = "totalQuestions" -> "totalquestions"
      [] h = "timeTaken" -> "timetaken"
      [] h = "receivedAt" -> "receivedat"
      [] OTHER -> h
pgRow(r) == [k \in {Fold(h) : h \in DOMAIN r} |-> r[CHOOSE h \in DOMAIN r : Fold(h) = k]]
readRows(b, ok) ==
    LET rd == readScores(b, ok)
    IN  IF b = "postgres"
        THEN ReadResult(rd.threw, [k \in 1..Len(rd.rows) |-> pgRow(rd.rows[k])])
        ELSE rd

\* server.js 416-434: the rows are read and the CSV is sent, or 500.
ExportScores(ok, lim) ==
    /\ CanReceive(lim)
    /\ LET b == readScoresBackend
           rd == readRows(b, ok)
       IN  Receive([NewReq("export", NoName, NoRecord) EXCEPT
                       !.backend = b, !.faulted = ~CallOK(b, ok), !.rows = rd.rows,
                       !.resp = IF rd.threw THEN "500" ELSE toCsv(rd.rows)])
    /\ UNCHANGED <<handles, now, remote, file, completedUsers, clients, sent>>

\* ---------------------------------------------------- GET /api/storage-info
StorageInfo(lim) ==                                          \* server.js 439-474
    /\ CanReceive(lim)
    /\ Receive([NewReq("info", NoName, NoRecord) EXCEPT !.resp = storageInfoMode])
    /\ UNCHANGED <<handles, now, remote, file, completedUsers, clients, sent>>

\* ------------------------------------------------------- admin authentication
\* A request path is the sequence of its segments, a trailing slash being a
\* last empty segment: /api/clear-scores/ is <<"api", "clear-scores", "">>.
Path(a, b) == IF b = "" THEN <<a>> ELSE <<a, b>>
Slash(p) == p \o <<"">>
Lower(s) ==
    CASE s = "API" -> "api"
      [] s = "CLEAR-SCORES" -> "clear-scores"
      [] s = "SCORES" -> "scores"
      [] OTHER -> s
LowerPath(p) == [k \in 1..Len(p) |-> Lower(p[k])]

\* ADMIN is "unset", "user" (ADMIN_USER alone), "set", or "padded" and
\* "padded1" (both set, and base64(user:pass) ends in "==" or "=").
\* The configured credentials as strings of characters: "a" and "b", "a" and
\* "bc", "a" and "bcc"; an unset variable is the empty string.
ADMIN_USER == IF env.ADMIN = "unset" THEN <<>> ELSE <<"a">>
ADMIN_PASS ==
    CASE env.ADMIN = "set" -> <<"b">>
      [] env.ADMIN = "padded" -> <<"b", "c">>
      [] env.ADMIN = "padded1" -> <<"b", "c", "c">>
      [] OTHER -> <<>>
\* server.js 60-62: the middleware protects only when both variables are set.
AdminConfigured == ADMIN_USER # <<>> /\ ADMIN_PASS # <<>>

\* Buffer.from(s).toString('base64') (server.js 69, 498): the bytes of s, three
\* at a time, as four digits of the base64 alphabet; a last group of one or
\* two bytes is filled up with "=".
Code(c) == CASE c = "a" -> 97 [] c = "b" -> 98 [] c = "c" -> 99 [] c = ":" -> 58
Utf8(s) == [k \in 1..Len(s) |-> Code(s[k])]
Base64Alphabet ==
    <<"A", "B", "C", "D", "E", "F", "G", "H", "I", "J", "K", "L", "M",
      "N", "O", "P", "Q", "R", "S", "T", "U", "V", "W", "X", "Y", "Z",
      "a", "b", "c", "d", "e", "f", "g", "h", "i", "j", "k", "l", "m",
      "n", "o", "p", "q", "r", "s", "t", "u", "v", "w", "x", "y", "z",
      "0", "1", "2", "3", "4", "5", "6", "7", "8", "9", "+", "/">>
Digit(n) == Base64Alphabet[n + 1]
RECURSIVE base64(_)
base64(b) ==
    IF Len(b) = 0 THEN <<>>
    ELSE IF Len(b) = 1
    THEN <<Digit(b[1] \div 4), Digit((b[1] % 4) * 16), "=", "=">>
    ELSE IF Len(b) = 2
    THEN <<Digit(b[1] \div 4), Digit((b[1] % 4) * 16 + b[2] \div 16),
           Digit((b[2] % 16) * 4), "=">>
    ELSE <<Digit(b[1] \div 4), Digit((b[1] % 4) * 16 + b[2] \div 16),
           Digit((b[2] % 16) * 4 + b[3] \div 64), Digit(b[3] % 64)>>
         \o base64(SubSeq(b, 4, Len(b)))
\* `${user}:${pass}` in base64 (server.js 69, 498).
token(user, pass) == base64(Utf8(user \o <<":">> \o pass))

\* String.prototype.split(sep): the pieces of s between the separators.
RECURSIVE split(_, _)
split(s, sep) ==
    IF \A k \in 1..Len(s) : s[k] # sep THEN <<s>>
    ELSE LET k == CHOOSE k \in 1..Len(s) : s[k] = sep /\ \A l \in 1..(k - 1) : s[l] # sep
         IN  <<SubSeq(s, 1, k - 1)>> \o split(SubSeq(s, k + 1, Len(s)), sep)

\* The name=value pair the login handler sets (server.js 500) and the browser
\* sends back in its Cookie header; the cookie's name is one symbol.
setCookie(user, pass) == <<"admin_auth", "=">> \o token(user, pass)
NoCookie == <<>>
\* The Cookie header of request q: the cookie "token" is the pair a login
\* with the configured credentials sets.
CookieHeader(q) == IF q.cookie = "token" THEN setCookie(ADMIN_USER, ADMIN_PASS) ELSE NoCookie

\* server.js 58-59: req.path === p || req.path.startsWith(p + '/')
protectedPaths ==
    {Path("scores.html", ""), Path("api", "clear-scores"), Path("api", "export-scores")}
StartsWith(path, p) == Len(path) > Len(p) /\ SubSeq(path, 1, Len(p)) = p
needsAuth(path) == \E p \in protectedPaths : path = p \/ StartsWith(path, p)

\* server.js 66-73: the cookie "token" is admin_auth=base64(user:pass), as the
\* login page sets it; split('=')[1] ends at the first "=" of the value.
CookieAccepted(q) ==
    LET cookies == split(CookieHeader(q), ";")
        found == {k \in 1..Len(cookies) :
                     /\ Len(cookies[k]) >= 2
                     /\ cookies[k][1] = "admin_auth" /\ cookies[k][2] = "="}
        adminCookie == cookies[CHOOSE k \in found : \A l \in found : k <= l]
        expected == token(ADMIN_USER, ADMIN_PASS)
        parts == split(adminCookie, "=")
        val == IF Len(parts) >= 2 THEN parts[2] ELSE <<>>
    IN  found # {} /\ val = expected
\* server.js 77-81: the Basic header carries the configured user and password.
BasicAccepted(q) == q.authorization = "basic-valid"
\* The request carries valid admin credentials.
Credentials(q) == q.cookie = "token" \/ q.authorization = "basic-valid"

\* adminAuthMiddleware (server.js 56-103): "next", "401" or "redirect".
adminAuthMiddleware(q) ==
    IF ~AdminConfigured \/ ~needsAuth(q.path) THEN "next"
    ELSE IF CookieAccepted(q) THEN "next"
    ELSE IF q.authorization # "none"
         THEN IF BasicAccepted(q) THEN "next" ELSE "401"
    ELSE IF q.client = "basic=1" THEN "401"
    ELSE IF q.client = "browser" THEN "redirect"
    ELSE "401"

\* The router (server.js 44: express() with its default settings, routing
\* neither case sensitive nor strict): letter case and one trailing slash are
\* ignored when a route is matched.
Routed(path) ==
    LET l == LowerPath(path)
    IN  IF Len(l) > 1 /\ l[Len(l)] = "" THEN SubSeq(l, 1, Len(l) - 1) ELSE l
Route(q) ==
    CASE q.method = "GET" /\ q.path = Path("scores.html", "") -> "static"   \* 107
      [] q.method = "GET" /\ Routed(q.path) = Path("api", "scores") -> "list"          \* 279
      [] q.method = "GET" /\ Routed(q.path) = Path("api", "export-scores") -> "list"   \* 416
      [] q.method = "POST" /\ Routed(q.path) = Path("api", "clear-scores") -> "clear"  \* 375
      [] OTHER -> "404"

\* A request passes the middleware and is dispatched (server.js 106-107 and
\* the routes).
Serve(q, ok, lim) ==
    LET r0 == [NewReq(Route(q), NoName, NoRecord) EXCEPT !.http = q]
        v == adminAuthMiddleware(q)
    IN  IF v = "next" /\ Route(q) = "list" THEN ListScoresFrom(r0, ok, lim)
        ELSE IF v = "next" /\ Route(q) = "clear" THEN ClearScoresFrom(r0, ok, lim)
        ELSE /\ CanReceive(lim)
             /\ Receive([r0 EXCEPT !.kind = "refused",
                                   !.resp = IF v = "next" THEN Route(q) ELSE v])
             /\ UNCHANGED <<handles, now, remote, file, completedUsers, clients, sent>>

\* -------------------------------------------------------------- environment
\* A WebSocket client connects (behind the clients present), gets into a
\* state in which send throws, starts closing, and is dropped from
\* wss.clients.
ClientConnects(c) ==
    /\ booted /\ clients[c] = "absent"
    /\ \A d \in 1..MaxClients : d > c => clients[d] = "absent"
    /\ clients' = [clients EXCEPT ![c] = "OPEN"]
    /\ UNCHANGED <<handles, now, remote, file, completedUsers, reqs, sent>>

ClientBreaks(c) ==
    /\ clients[c] = "OPEN"
    /\ clients' = [clients EXCEPT ![c] = "THROWS"]
    /\ UNCHANGED <<handles, now, remote, file, completedUsers, reqs, sent>>

ClientCloses(c) ==
    /\ clients[c] \in {"OPEN", "THROWS"}
    /\ clients' = [clients EXCEPT ![c] = "CLOSING"]
    /\ UNCHANGED <<handles, now, remote, file, completedUsers, reqs, sent>>

ClientDropped(c) ==
    /\ clients[c] = "CLOSING"
    /\ clients' = [clients EXCEPT ![c] = "absent"]
    /\ UNCHANGED <<handles, now, remote, file, completedUsers, reqs, sent>>

\* ------------------------------------------------------------ specification
\* The payloads of the concurrency model: every kind of name, id and the
\* other fields left out.
Payloads == {Record(n, Null, Null, Null, Null) : n \in Names \cup {"", NoName}}

\* The submission, status and clear handlers.
Handlers(P, lim) ==
    \/ \E p \in P, t \in now..MaxClock, ok \in BOOLEAN : SubmitScore(p, t, ok, lim)
    \/ \E i \in 1..Len(reqs), ok \in BOOLEAN : InsertGetReturns(i, ok)
    \/ \E i \in 1..Len(reqs), ok \in BOOLEAN : BackendExecutes(i, ok)
    \/ \E i \in 1..Len(reqs) : SubmitReturns(i)
    \/ \E n \in Names, ok \in BOOLEAN : QuizStatus(n, ok, lim)
    \/ \E i \in 1..Len(reqs), ok \in BOOLEAN : StatusQueryReturns(i, ok)
    \/ \E i \in 1..Len(reqs), ok \in BOOLEAN : StatusFallbackReturns(i, ok)
    \/ \E ok \in BOOLEAN : ClearScores(ok, lim)
    \/ \E i \in 1..Len(reqs), ok \in BOOLEAN : ClearSnapshotReturns(i, ok)
    \/ \E i \in 1..Len(reqs) : ClearReturns(i)

\* The list / export and storage-info handlers.
Readers(lim) ==
    \/ \E ok \in BOOLEAN : ListScores(ok, lim)
    \/ \E i \in 1..Len(reqs), ok \in BOOLEAN : ListReturns(i, ok)
    \/ StorageInfo(lim)

\* The WebSocket clients.
Observers ==
    \/ \E c \in 1..MaxClients : ClientConnects(c)
    \/ \E c \in 1..MaxClients : ClientBreaks(c)
    \/ \E c \in 1..MaxClients : ClientCloses(c)
    \/ \E c \in 1..MaxClients : ClientDropped(c)

\* The handlers under concurrency, one healthy configuration per backend.
Init == InitWith(EnvsHealthy)
Next == Startup \/ Handlers(Payloads, Lim(MaxReq, MaxInFlight))
Spec == Init /\ [][Next]_vars

\* Every backend call a request waits for returns or fails, and the
\* continuation of the handler that awaits it is run.
Returns(i) ==
    /\ i \in 1..Len(reqs)
    /\ \/ \E ok \in BOOLEAN : InsertGetReturns(i, ok)
       \/ \E ok \in BOOLEAN : BackendExecutes(i, ok)
       \/ SubmitReturns(i)
       \/ \E ok \in BOOLEAN : StatusQueryReturns(i, ok)
       \/ \E ok \in BOOLEAN : StatusFallbackReturns(i, ok)
       \/ \E ok \in BOOLEAN : ClearSnapshotReturns(i, ok)
       \/ ClearReturns(i)
CallsReturn == \A i \in 1..MaxReq : WF_vars(Returns(i))
SpecLive == Init /\ [][Next]_vars /\ CallsReturn

\* Every configuration, requests served one at a time.
OneAtATime == Lim(MaxReqSeq, 1)
InitStartup == InitWith(Envs)
NextStartup == Startup \/ Handlers(Payloads, OneAtATime) \/ Readers(OneAtATime)
SpecStartup == InitStartup /\ [][NextStartup]_vars

\* Payloads with every field present, absent or zero, served one at a time
\* by each healthy backend.  A supplied id or receivedAt lies beyond the
\* clock's range.
Optional(S) == S \cup {Null}
PayloadsFields ==
    {Record("alice", i, f, f, r) :
        i \in Optional({MaxClock + 1}), f \in Optional(0..MaxField),
        r \in Optional({MaxClock + 2})}
    \cup {Record("bob", Null, f, a, Null) :
        f \in Optional(0..MaxField), a \in Optional(0..MaxField)}
    \cup {Record("", Null, Null, Null, Null)}
NextFields == Startup \/ Handlers(PayloadsFields, OneAtATime)
SpecFields == Init /\ [][NextFields]_vars

\* Submissions that do or do not carry an id and a receivedAt of their own,
\* 0 among the values carried.
PayloadsIdentity ==
    {Record("alice", i, Null, Null, r) :
        i \in Optional({0, MaxClock + 1}), r \in Optional({0, MaxClock + 2})}
    \cup {Record("", Null, Null, Null, Null)}
NextIdentity == Startup \/ Handlers(PayloadsIdentity, OneAtATime)
SpecIdentity == Init /\ [][NextIdentity]_vars

\* Every configuration, with the table creation of startup returning or
\* failing while requests are served.
NextFaults ==
    \/ Startup
    \/ \E ok \in BOOLEAN : EnsureTableReturns(ok)
    \/ Handlers(Payloads, OneAtATime)
    \/ Readers(OneAtATime)
SpecFaults == InitStartup /\ [][NextFaults]_vars

\* The handlers while WebSocket clients come and go.
NextNotify == Startup \/ Handlers(Payloads, OneAtATime) \/ Observers
SpecNotify == Init /\ [][NextNotify]_vars

\* The server starts over stores an earlier run or another writer left
\* behind: missing, holding a record, or holding a body that is not JSON
\* (the remote store of Postgres and Firestore is never malformed).
Leftover == Record("bob", MaxClock + 3, Null, Null, 1)
StoresLeft == {NoStore, Store("ok", <<Leftover>>), Store("corrupt", <<>>)}
RemotesLeft(e) ==
    IF PoolCreated(e) \/ FirestoreCreated(e)
    THEN {EmptyStore, Store("ok", <<Leftover>>)}
    ELSE IF S3ClientCreated(e) THEN StoresLeft ELSE {NoStore}
InitStored ==
    /\ env \in EnvsHealthy
    /\ booted = FALSE
    /\ pool = FALSE /\ firestore = FALSE /\ s3Client = FALSE
    /\ initFailed = {}
    /\ ensured = "none"
    /\ now = 1
    /\ remote \in RemotesLeft(env)
    /\ file \in StoresLeft
    /\ completedUsers = {}
    /\ reqs = <<>>
    /\ clients = [c \in 1..MaxClients |-> "absent"]
    /\ sent = <<>>
NextStored == Startup \/ Handlers(Payloads, OneAtATime) \/ Readers(OneAtATime)
SpecStored == InitStored /\ [][NextStored]_vars

\* Requests as they reach the middleware, with and without admin
\* credentials, under every setting of ADMIN_USER and ADMIN_PASS.
Admins == {"unset", "user", "set", "padded"}
Targets ==
    {<<"GET", Path("api", "scores")>>, <<"GET", Slash(Path("api", "scores"))>>,
     <<"GET", Path("api", "export-scores")>>, <<"GET", Path("API", "export-scores")>>,
     <<"GET", Path("scores.html", "")>>,
     <<"POST", Path("api", "clear-scores")>>, <<"POST", Slash(Path("api", "clear-scores"))>>,
     <<"POST", Path("API", "CLEAR-SCORES")>>}
HttpRequests ==
    {[method |-> t[1], path |-> t[2], cookie |-> c, authorization |-> a, client |-> u] :
        t \in Targets, c \in {"none", "token"},
        a \in {"none", "basic-valid", "basic-wrong"},
        u \in {"browser", "basic=1", "script"}}
InitAuth ==
    /\ env \in {[e EXCEPT !.ADMIN = a] : e \in EnvsHealthy, a \in Admins}
    /\ booted = FALSE
    /\ pool = FALSE /\ firestore = FALSE /\ s3Client = FALSE
    /\ initFailed = {}
    /\ ensured = "none"
    /\ now = 1
    /\ remote = IF PoolCreated(env) \/ FirestoreCreated(env) \/ S3ClientCreated(env)
                THEN Store("ok", <<Leftover>>) ELSE NoStore
    /\ file = Store("ok", <<Leftover>>)
    /\ completedUsers = {}
    /\ reqs = <<>>
    /\ clients = [c \in 1..MaxClients |-> "absent"]
    /\ sent = <<>>
NextAuth ==
    \/ Startup
    \/ \E q \in HttpRequests, ok \in BOOLEAN :
          /\ Cardinality({k \in 1..Len(reqs) : reqs[k].http # NoHttp}) < MaxHttp
          /\ Serve(q, ok, OneAtATime)
    \/ \E p \in Payloads, t \in now..MaxClock, ok \in BOOLEAN : SubmitScore(p, t, ok, OneAtATime)
    \/ \E i \in 1..Len(reqs), ok \in BOOLEAN : InsertGetReturns(i, ok)
    \/ \E i \in 1..Len(reqs), ok \in BOOLEAN : BackendExecutes(i, ok)
    \/ \E i \in 1..Len(reqs) : SubmitReturns(i)
    \/ \E i \in 1..Len(reqs), ok \in BOOLEAN : ClearSnapshotReturns(i, ok)
    \/ \E i \in 1..Len(reqs) : ClearReturns(i)
    \/ \E i \in 1..Len(reqs), ok \in BOOLEAN : ListReturns(i, ok)
SpecAuth == InitAuth /\ [][NextAuth]_vars

\* Exports of one stored record, one of whose text columns holds any text of
\* letters, quotes, commas and line breaks.
RECURSIVE Texts(_)
Texts(n) ==
    IF n = 0 THEN {<<>>}
    ELSE Texts(n - 1) \cup {Append(t, c) : t \in Texts(n - 1), c \in {"a", Quote, Comma, NewLine}}
TextColumns == {"name", "email", "timeTaken", "reason"}
ExportRows ==
    {[h \in {headers[k] : k \in 1..Len(headers)} |-> IF h = c THEN t ELSE NoText] :
        c \in TextColumns, t \in Texts(MaxText)}
InitExport ==
    /\ env \in EnvsHealthy
    /\ booted = FALSE
    /\ pool = FALSE /\ firestore = FALSE /\ s3Client = FALSE
    /\ initFailed = {}
    /\ ensured = "none"
    /\ now = 1
    /\ \E r \in ExportRows :
          /\ remote = IF PoolCreated(env) \/ FirestoreCreated(env) \/ S3ClientCreated(env)
                      THEN Store("ok", <<r>>) ELSE NoStore
          /\ file = Store("ok", <<r>>)
    /\ completedUsers = {}
    /\ reqs = <<>>
    /\ clients = [c \in 1..MaxClients |-> "absent"]
    /\ sent = <<>>
NextExport == Startup \/ \E ok \in BOOLEAN : ExportScores(ok, Lim(1, 1))
SpecExport == InitExport /\ [][NextExport]_vars

\* The process is stopped and started again: the module's state is lost, the
\* requests in flight are never answered, the stores stay as they are.  A
\* write the backend has not executed yet is lost with its request.
RestartKeeps == completedUsers
RestartCompleted == {}                       \* server.js 122: new Set()
Restart(lim) ==
    /\ booted /\ Len(reqs) < lim.n
    /\ booted' = FALSE
    /\ pool' = FALSE /\ firestore' = FALSE /\ s3Client' = FALSE
    /\ initFailed' = {}
    /\ ensured' = "none"
    /\ completedUsers' = RestartCompleted
    /\ clients' = [c \in 1..MaxClients |-> "absent"]
    /\ reqs' = [k \in 1..Len(reqs) |->
                  IF InFlight(reqs[k])
                  THEN [reqs[k] EXCEPT !.pc = "done", !.resp = "dropped"]
                  ELSE reqs[k]]
               \o <<[NewReq("restart", NoName, NoRecord) EXCEPT !.resp = "restarted"]>>
    /\ UNCHANGED <<env, now, remote, file, sent>>

\* Requests served one at a time over existing stores, with restarts.
Sequential == Lim(MaxReq, 1)
NextRestart == Startup \/ Handlers(Payloads, Sequential) \/ Restart(Sequential)
SpecRestart == InitStored /\ [][NextRestart]_vars

\* ------------------------------------------------------------ observations
\* listAll(): what readScores returns when the backend answers.
ListAll == readScores(readScoresBackend, TRUE).rows

\* hasCompleted(name): what the status handler answers when the backend answers.
HasCompleted(name) ==
    IF InMemory(name) THEN "true"
    ELSE IF quizStatusBackend = "file" THEN fallbackQuery(readScoresBackend, name, TRUE)
    ELSE LET a == existsQuery(quizStatusBackend, name, TRUE) IN
         IF a = "fallback" THEN fallbackQuery(readScoresBackend, name, TRUE) ELSE a

\* Request i is received in this step / is answered in this step.
Arrives(i) == i \in 1..Len(reqs') /\ i > Len(reqs)
Answered(i) ==
    /\ i \in 1..Len(reqs')
    /\ reqs'[i].resp # "none"
    /\ (i > Len(reqs) \/ reqs[i].resp = "none")
WriteInFlight(r) == r.kind = "submit" /\ InFlight(r)
Stored(name) == SeqSome(remote.arr, name) \/ SeqSome(file.arr, name)

\* ------------------------------------------------------------------ claims

\* C1: a submission whose name is missing or empty is answered 400 and does
\* nothing else: insertScore is not invoked, no backend is touched, the
\* completion set and the stores are unchanged and no envelope is sent.
C1_NamelessSubmissionRejected ==
    [][\A i \in 1..Len(reqs') :
         (Arrives(i) /\ reqs'[i].kind = "submit" /\ FalsyName(reqs'[i].payload.name))
         => /\ reqs'[i].resp = "400" /\ reqs'[i].pc = "done"
            /\ ~reqs'[i].appended /\ reqs'[i].backend = "none"
            /\ completedUsers' = completedUsers
            /\ remote' = remote /\ file' = file
            /\ sent' = sent]_vars

\* A nameless submission was rejected while names were marked and records stored.
C1_Witness ==
    \E i \in 1..Len(reqs) :
        /\ reqs[i].kind = "submit" /\ reqs[i].payload.name = "" /\ reqs[i].resp = "400"
        /\ completedUsers # {} /\ sent # <<>>

\* C2 as claimed: whenever a submission by name is answered success, name is
\* in the in-memory set, whatever requests ran in between.
C2_SuccessImpliesInMemory ==
    [][\A i \in 1..Len(reqs') :
         (reqs'[i].kind = "submit" /\ Answered(i) /\ reqs'[i].resp = "success")
         => reqs'[i].name \in completedUsers']_vars

\* C2 as amended: whenever a submission by name is answered success and no
\* clear-scores has cleared the set since the submission was received, name
\* is in the in-memory set; and a status check for a name in the set is
\* answered true at once, with no backend call.
C2_SuccessImpliesInMemoryUnlessCleared ==
    [][/\ \A i \in 1..Len(reqs') :
            (reqs'[i].kind = "submit" /\ Answered(i) /\ reqs'[i].resp = "success"
                /\ ~reqs'[i].reset)
            => reqs'[i].name \in completedUsers'
       /\ \A j \in 1..Len(reqs') :
            (Arrives(j) /\ reqs'[j].kind = "status" /\ reqs'[j].name \in completedUsers)
            => /\ reqs'[j].resp = "true" /\ reqs'[j].pc = "done"
               /\ reqs'[j].backend = "none" /\ ~reqs'[j].faulted]_vars

\* A submission that overlapped another request succeeded, and a later
\* status check for its name was answered true from memory.
C2_Witness ==
    \E i, j \in 1..Len(reqs) :
        /\ i < j
        /\ reqs[i].kind = "submit" /\ reqs[i].resp = "success"
        /\ ~reqs[i].reset /\ ~reqs[i].alone
        /\ reqs[j].kind = "status" /\ reqs[j].name = reqs[i].name
        /\ reqs[j].resp = "true" /\ reqs[j].backend = "none"

\* C3 as claimed: a status check for name received while a submission by
\* name has its write in flight is answered completed = true.
C3_StatusDuringWriteIsTrue ==
    [][\A j \in 1..Len(reqs') :
         (Arrives(j) /\ reqs'[j].kind = "status")
         => \A i \in 1..Len(reqs) :
               (WriteInFlight(reqs[i]) /\ reqs[i].name = reqs'[j].name)
               => reqs'[j].resp = "true"]_vars

\* C3 as amended: the step that receives a valid submission puts its name in
\* the set, no later than it starts the write; and a status check for name
\* received while that write is in flight is answered completed = true,
\* provided no clear-scores has cleared the set since the submission was
\* received.
C3_StatusDuringWriteIsTrueUnlessCleared ==
    [][/\ \A i \in 1..Len(reqs') :
            (Arrives(i) /\ reqs'[i].kind = "submit" /\ reqs'[i].appended)
            => reqs'[i].name \in completedUsers'
       /\ \A j \in 1..Len(reqs') :
            (Arrives(j) /\ reqs'[j].kind = "status")
            => \A i \in 1..Len(reqs) :
                  (WriteInFlight(reqs[i]) /\ reqs[i].name = reqs'[j].name
                      /\ ~reqs[i].reset)
                  => /\ reqs'[j].resp = "true"
                     /\ reqs'[j].backend = "none"]_vars

\* A status check was answered true while the write of a submission by the
\* same name had not been executed by the backend.
C3_Witness ==
    \E i, j \in 1..Len(reqs) :
        /\ i < j
        /\ reqs[i].kind = "submit" /\ reqs[i].pc = "write" /\ ~Stored(reqs[i].name)
        /\ reqs[j].kind = "status" /\ reqs[j].name = reqs[i].name
        /\ reqs[j].resp = "true"

\* C4 as claimed: when insertScore fails, the caller is answered 500, no
\* envelope is sent, no store changes and name is in the in-memory set.
C4_FailureKeepsMark ==
    [][\A i \in 1..Len(reqs') :
         (reqs'[i].kind = "submit" /\ Answered(i) /\ reqs'[i].result = "err")
         => /\ reqs'[i].resp = "500"
            /\ sent' = sent /\ remote' = remote /\ file' = file
            /\ reqs'[i].name \in completedUsers']_vars

\* C4 as amended: the same, name being in the set provided no clear-scores
\* has cleared the set since the submission was received; the failure path
\* itself removes nothing from the set.
C4_FailureKeepsMarkUnlessCleared ==
    [][\A i \in 1..Len(reqs') :
         (reqs'[i].kind = "submit" /\ Answered(i) /\ reqs'[i].result = "err")
         => /\ reqs'[i].resp = "500"
            /\ sent' = sent /\ remote' = remote /\ file' = file
            /\ completedUsers \subseteq completedUsers'
            /\ (~reqs'[i].reset => reqs'[i].name \in completedUsers')]_vars

\* A submission failed, nothing is stored under its name, and a later
\* status check for the name was answered true.
C4_Witness ==
    \E i, j \in 1..Len(reqs) :
        /\ i < j
        /\ reqs[i].kind = "submit" /\ reqs[i].resp = "500" /\ reqs[i].faulted
        /\ ~Stored(reqs[i].name)
        /\ reqs[j].kind = "status" /\ reqs[j].name = reqs[i].name
        /\ reqs[j].resp = "true"

\* C6: right after a clear-scores that ran with no other request in flight
\* was answered success, listAll is empty and hasCompleted is false for
\* every name.
C6_ClearEmptiesEverything ==
    \A i \in 1..Len(reqs) :
        (reqs[i].kind = "clear" /\ reqs[i].resp = "success" /\ reqs[i].alone
            /\ i = Len(reqs))
        => /\ ListAll = <<>>
           /\ \A n \in Names : HasCompleted(n) = "false"

\* Such a clear found records stored and a name marked by an earlier success.
C6_Witness ==
    \E i, j \in 1..Len(reqs) :
        /\ j < i /\ i = Len(reqs)
        /\ reqs[i].kind = "clear" /\ reqs[i].resp = "success" /\ reqs[i].alone
        /\ reqs[i].before # <<>>
        /\ reqs[j].kind = "submit" /\ reqs[j].resp = "success" /\ reqs[j].backend # "file"

\* C5: a valid submission served alone by a healthy backend leaves listAll
\* holding exactly the records it held before plus one new record, whose
\* every field equals the submitted value: score and answeredQuestions also
\* when 0, id and receivedAt when the caller supplied them.
RemoveAt(s, k) == SubSeq(s, 1, k - 1) \o SubSeq(s, k + 1, Len(s))
FieldsPreserved(p, r) ==
    /\ r.name = p.name
    /\ r.score = p.score
    /\ r.answeredQuestions = p.answeredQuestions
    /\ (p.id # Null => r.id = p.id)
    /\ (p.receivedAt # Null => r.receivedAt = p.receivedAt)
C5_AppendRoundTrips ==
    \A i \in 1..Len(reqs) :
        (/\ reqs[i].kind = "submit" /\ reqs[i].appended /\ reqs[i].pc = "done"
         /\ reqs[i].alone /\ ~reqs[i].faulted /\ i = Len(reqs))
        => \E k \in 1..Len(ListAll) :
              /\ RemoveAt(ListAll, k) = reqs[i].before
              /\ FieldsPreserved(reqs[i].payload, ListAll[k])

\* C7: once the module's top level has run with no client failing to
\* initialise, the active backend is the first fully specified candidate:
\* connection string, then credentials, then bucket with region and
\* credentials, then the local file.
FirstFullySpecified(e) ==
    IF e.DATABASE_URL # "unset" THEN "postgres"
    ELSE IF e.FIREBASE_SERVICE_ACCOUNT # "unset" THEN "firestore"
    ELSE IF e.S3_BUCKET /\ e.AWS_REGION /\ e.AWS_KEYS THEN "s3"
    ELSE "file"
C7_FirstFullySpecifiedIsActive ==
    (booted /\ initFailed = {}) => storageInfoMode = FirstFullySpecified(env)

\* C8: once booted, readScores, insertScore, the clear handler, the status
\* handler and storage-info select the same backend, every call of every
\* request goes to it, and no step changes the handles it is selected from.
BackendsAgree ==
    /\ readScoresBackend = storageInfoMode
    /\ insertScoreBackend = storageInfoMode
    /\ clearScoresBackend = storageInfoMode
    /\ quizStatusBackend = storageInfoMode
    /\ \A i \in 1..Len(reqs) :
          /\ reqs[i].backend \in {"none", storageInfoMode}
          /\ reqs[i].kind = "info" => reqs[i].resp = storageInfoMode
C9_FailedCandidateFallsThrough ==
    booted => /\ storageInfoMode \notin initFailed
              /\ \A i \in 1..Len(reqs) : reqs[i].backend \notin initFailed

\* C10: on S3, two submissions that both read the empty object and were both
\* answered success leave exactly one of the two records in the object.
BothReadEmpty(i, j) ==
    /\ i < j /\ Len(reqs) = 2
    /\ \A k \in {i, j} :
          /\ reqs[k].kind = "submit" /\ reqs[k].backend = "s3"
          /\ reqs[k].resp = "success" /\ ~reqs[k].faulted
          /\ reqs[k].arr = <<reqs[k].rec>>
C10_S3ConcurrentAppendsLoseOne ==
    \A i, j \in 1..Len(reqs) :
        BothReadEmpty(i, j) => remote.arr \in {<<reqs[i].rec>>, <<reqs[j].rec>>}

\* Two such submissions of different records have both succeeded.
C10_Witness ==
    \E i, j \in 1..Len(reqs) :
        /\ BothReadEmpty(i, j)
        /\ reqs[i].rec # reqs[j].rec
        /\ Len(remote.arr) = 1

\* The submissions backend b has answered with success since the last clear.
SucceededOn(b) ==
    {i \in 1..Len(reqs) :
        /\ reqs[i].kind = "submit" /\ reqs[i].backend = b
        /\ reqs[i].resp = "success" /\ ~reqs[i].reset}
Holds(s, r) == \E k \in 1..Len(s) : s[k] = r

\* C11 as claimed: the file branch reads the array in one step and writes it
\* back in a later one, so that a second submission can read the same prior
\* array in between: the step in which a submission takes the file branch
\* leaves the file as it was.
C11_FileReadAndWriteAreSeparateSteps ==
    [][\A i \in 1..Len(reqs') :
         (Arrives(i) /\ reqs'[i].kind = "submit" /\ reqs'[i].appended
             /\ reqs'[i].backend = "file")
         => file' = file]_vars

\* C11 as amended: with the local file active, no interleaving of the
\* submissions one server process handles loses a record: the file holds
\* exactly the records of the submissions answered success since the last
\* clear.
C11_FileAppendsLoseNothing ==
    (booted /\ insertScoreBackend = "file")
    => /\ Len(file.arr) = Cardinality(SucceededOn("file"))
       /\ \A i \in SucceededOn("file") : Holds(file.arr, reqs[i].rec)

\* Two submissions of different records against the empty file succeeded.
C11_Witness ==
    \E i, j \in SucceededOn("file") :
        /\ i < j /\ reqs[i].before = <<>>
        /\ reqs[i].rec # reqs[j].rec
        /\ file.arr = <<reqs[i].rec, reqs[j].rec>>

\* C12: with Postgres or Firestore active and no clear received, every
\* submission answered success has a record of its own in the store: a row
\* or document with its id and its name, whatever was submitted concurrently
\* and also when its id is the time of its submission.
NoClearReceived == \A k \in 1..Len(reqs) : reqs[k].kind # "clear"
HasOwnRecord(s, r) == \E k \in 1..Len(s) : s[k].id = r.id /\ s[k].name = r.name
C12_RowStoresLoseNoWrite ==
    (insertScoreBackend \in {"postgres", "firestore"} /\ NoClearReceived)
    => \A i \in SucceededOn(insertScoreBackend) : HasOwnRecord(remote.arr, reqs[i].rec)

\* C13: a record whose append was answered success since the last successful
\* clear is still returned by listAll, with every field as it was stored,
\* whatever submissions were processed after it.  (A clear that has not
\* answered yet may already have emptied the store: such states are left out.)
NoClearInFlight == \A k \in 1..Len(reqs) : reqs[k].kind = "clear" => ~InFlight(reqs[k])
C13_RecordsStayUntilClear ==
    NoClearInFlight
    => \A i \in SucceededOn(insertScoreBackend) : Holds(ListAll, reqs[i].rec)

\* C14: no two records the active backend holds share an id, whether the
\* ids were supplied by the callers or generated: a submission whose id is
\* that of a stored record replaces it or is rejected.
C14_IdsAreUnique ==
    \A k, l \in 1..Len(ListAll) : k # l => ListAll[k].id # ListAll[l].id

\* C15: whatever submissions were accepted, with receivedAt supplied by the
\* caller or assigned by the server, listAll against a backend that answers
\* does not fail and returns the records in ascending receivedAt order (the
\* empty sequence when the backend holds nothing).
Ascending(s) == \A k, l \in 1..Len(s) : k < l => s[k].receivedAt <= s[l].receivedAt
C15_ListIsAscending ==
    booted => /\ ~readScores(readScoresBackend, TRUE).threw
              /\ Ascending(ListAll)

\* C16: when a call of the configured backend fails during listAll, the
\* list / export endpoint answers with the empty record set, not an error.
C16_FailedListIsEmpty ==
    \A i \in 1..Len(reqs) :
        (/\ reqs[i].kind = "list" /\ reqs[i].pc = "done"
         /\ reqs[i].faulted /\ Reachable(reqs[i].backend))
        => reqs[i].resp = "rows" /\ reqs[i].rows = <<>>

\* C17: every status check is answered with a boolean, also when the name is
\* not in the in-memory set and the backend's existence query fails.
C17_StatusIsBoolean ==
    \A i \in 1..Len(reqs) :
        (reqs[i].kind = "status" /\ reqs[i].pc = "done")
        => reqs[i].resp \in {"true", "false"}

\* C18: when a remote backend is active and its read call fails, the read
\* falls back to the local file: the list request returns the records of the
\* local file and the status check answers from the names in the local file.
FileRows == IF file.st = "ok" THEN file.arr ELSE <<>>
C18_FailedReadFallsBackToFile ==
    \A i \in 1..Len(reqs) :
        (/\ reqs[i].pc = "done" /\ reqs[i].faulted
         /\ reqs[i].backend \in {"postgres", "firestore", "s3"})
        => /\ reqs[i].kind = "list"
              => reqs[i].resp = "rows" /\ reqs[i].rows = FileRows
           /\ reqs[i].kind = "status"
              => reqs[i].resp = Completed(SeqSome(FileRows, reqs[i].name))

\* C19: while a remote backend is active no step writes the local file, a
\* write is executed once per submission (no retry), and a submission whose
\* write failed is answered 500 with both stores left as they are; on
\* Postgres and Firestore, whose only call is the write, every submission
\* with a failed call is answered 500.
Remote(b) == b \in {"postgres", "firestore", "s3"}
MalformedActive ==
    \/ booted /\ storageInfoMode = "file" /\ file.st = "corrupt"
    \/ booted /\ storageInfoMode = "s3" /\ remote.st = "corrupt"
C20_MalformedStoreIsEmpty ==
    [][/\ MalformedActive
          => /\ ListAll = <<>>
             /\ \A n \in Names \ completedUsers : HasCompleted(n) = "false"
       /\ \A i \in 1..Len(reqs') :
            (/\ Arrives(i) /\ reqs'[i].kind = "submit" /\ reqs'[i].appended
             /\ reqs'[i].backend = "file" /\ file.st = "corrupt"
             /\ ~reqs'[i].faulted)
            => /\ reqs'[i].resp = "success"
               /\ file' = Store("ok", <<reqs'[i].rec>>)
       /\ \A i \in 1..Len(reqs) :
            (/\ reqs[i].kind = "submit" /\ reqs[i].backend = "s3"
             /\ reqs[i].pc = "read" /\ reqs'[i].pc = "write"
             /\ remote.st = "corrupt")
            => reqs'[i].arr = <<reqs[i].rec>>]_vars

\* C21: a restart empties the in-memory set; a status check is answered
\* from memory only for a name in the set, and one that goes to the backend
\* and whose reads succeed answers true exactly when the active backend
\* holds a record with that name.
ActiveRows ==
    IF storageInfoMode = "file" THEN FileRows
    ELSE IF remote.st = "ok" THEN remote.arr ELSE <<>>
Supplied(v) == v # Null
C22_SuppliedIdentityIsKept ==
    [][\A i \in 1..Len(reqs') :
         (Answered(i) /\ reqs'[i].kind = "submit" /\ reqs'[i].resp = "success")
         => /\ reqs'[i].rec.id =
                 IF Supplied(reqs'[i].payload.id) THEN reqs'[i].payload.id ELSE now'
            /\ reqs'[i].rec.receivedAt =
                 IF Supplied(reqs'[i].payload.receivedAt)
                 THEN reqs'[i].payload.receivedAt ELSE now']_vars

\* C23: a valid submission is answered success exactly when the append
\* succeeded, also when publishing the new-score envelope throws.
C23_ResponseFollowsPersistence ==
    [][\A i \in 1..Len(reqs') :
         (Answered(i) /\ reqs'[i].kind = "submit" /\ reqs'[i].appended)
         => /\ reqs'[i].resp \in {"success", "500"}
            /\ reqs'[i].resp = "success" <=> reqs'[i].result = "ok"]_vars
C23_Witness ==
    \E i \in 1..Len(reqs), k \in 1..Len(sent) :
        /\ reqs[i].kind = "submit" /\ reqs[i].resp = "success"
        /\ sent[k].type = "new-score" /\ sent[k].payload = reqs[i].rec
        /\ sent[k].threw /\ sent[k].to = {}

\* C24: in every broadcast, new-score or clear-scores, each observer that is
\* open at publish time and whose own send does not fail receives the
\* envelope, whatever its position in the observer set and whichever other
\* sends fail.
C24_SendFailureIsIsolated ==
    [][Len(sent') > Len(sent)
       => \A c \in OpenClients : ~SendThrows(c) => c \in sent'[Len(sent')].to]_vars

\* C25: the step that answers a submission with success publishes exactly one
\* new-score envelope, which carries the accepted record and for which send
\* is called on every observer open at that time and on no other, and it
\* removes no observer;
\* a submission rejected or not persisted publishes nothing; and no other
\* step publishes a new-score envelope.
Published(type) ==
    /\ Len(sent') = Len(sent) + 1
    /\ SubSeq(sent', 1, Len(sent)) = sent
    /\ sent'[Len(sent')].type = type
C25_OneEnvelopePerStoredSubmission ==
    [][/\ \A i \in 1..Len(reqs') :
            (Answered(i) /\ reqs'[i].kind = "submit")
            => IF reqs'[i].resp = "success"
               THEN /\ Published("new-score")
                    /\ sent'[Len(sent')].payload = reqs'[i].rec
                    /\ sent'[Len(sent')].tried = OpenClients
                    /\ clients' = clients
               ELSE sent' = sent
       /\ (sent' # sent /\ sent'[Len(sent')].type = "new-score")
            => \E i \in 1..Len(reqs') :
                  Answered(i) /\ reqs'[i].kind = "submit" /\ reqs'[i].resp = "success"]_vars

\* C26: a clear-scores envelope is published, with send called on every open
\* observer, by exactly the steps that answer a clear request whose backend
\* clear succeeded; a clear request whose backend clear failed is answered
\* with an error, and neither the failing backend call nor the answer
\* changes the completion set, the stored records or the envelopes sent.
Failed(i) ==
    /\ i \in 1..Len(reqs') /\ reqs'[i].kind = "clear" /\ reqs'[i].result = "err"
    /\ (i > Len(reqs) \/ reqs[i].result # "err")
C26_ClearEnvelopeFollowsBackend ==
    [][/\ \A i \in 1..Len(reqs') :
            (Answered(i) /\ reqs'[i].kind = "clear")
            => IF reqs'[i].result = "ok"
               THEN /\ reqs'[i].resp = "success"
                    /\ Published("clear-scores")
                    /\ sent'[Len(sent')].tried = OpenClients
               ELSE /\ reqs'[i].resp = "500"
                    /\ sent' = sent /\ completedUsers' = completedUsers
       /\ \A i \in 1..Len(reqs') :
            Failed(i) => /\ remote' = remote /\ file' = file
                         /\ sent' = sent /\ completedUsers' = completedUsers
       /\ (sent' # sent /\ sent'[Len(sent')].type = "clear-scores")
            => \E i \in 1..Len(reqs') :
                  Answered(i) /\ reqs'[i].kind = "clear" /\ reqs'[i].result = "ok"]_vars

\* C27: every submission that passed validation is eventually answered,
\* with success or with the persistence failure, whatever other requests are
\* in flight, and an answer once given is never replaced or given again.
Passed(i) == i \in 1..Len(reqs) /\ reqs[i].kind = "submit" /\ reqs[i].appended
C27_ValidSubmissionIsAnsweredOnce ==
    /\ \A i \in 1..MaxReq : Passed(i) ~> (Passed(i) /\ reqs[i].resp \in {"success", "500"})
    /\ [][\A i \in 1..Len(reqs) :
            (Passed(i) /\ reqs[i].resp # "none")
            => (reqs'[i].resp = reqs[i].resp /\ reqs'[i].pc = "done")]_vars
C27_Witness ==
    \E i, j \in 1..Len(reqs) :
        /\ i # j /\ Passed(i) /\ ~reqs[i].alone /\ reqs[i].backend # "file"
        /\ reqs[i].resp \in {"success", "500"}
        /\ InFlight(reqs[j])

\* C28: no failure of a backend call stops the process: the table creation
\* of startup may fail, and a call may fail inside the list, submit, status
\* and clear handlers; the process keeps running and the request is answered
\* with an error or from an empty default.
ErrorOrDefault(r) ==
    CASE r.kind = "submit" -> r.resp = "500" \/ (r.backend = "s3" /\ r.resp = "success")
      [] r.kind = "list" -> r.resp = "500" \/ (r.resp = "rows" /\ r.rows = <<>>)
      [] r.kind = "status" -> r.resp \in {"500", "true", "false"}
      [] r.kind = "clear" -> r.resp = "500"
      [] OTHER -> FALSE
ToScores(q) == q.method = "GET" /\ Routed(q.path) = Path("api", "scores")
C29_ScoresNeedCredentials ==
    (booted /\ AdminConfigured)
    => \A i \in 1..Len(reqs) :
          (/\ ToScores(reqs[i].http) /\ ~Credentials(reqs[i].http)
           /\ reqs[i].resp # "none" /\ ~reqs[i].faulted)
          => reqs[i].resp \in {"redirect", "401"}

\* C30: with ADMIN_USER and ADMIN_PASS both set, every request that the
\* router dispatches to the clear-scores handler, whatever its path, carries
\* valid admin credentials: without them the handler is never reached and
\* neither the stored scores nor the completion set is cleared.  (Stated for
\* the requests the handler answered with success.)
C30_ClearNeedsCredentials ==
    (booted /\ AdminConfigured)
    => \A i \in 1..Len(reqs) :
          (reqs[i].kind = "clear" /\ reqs[i].http # NoHttp /\ reqs[i].resp = "success")
          => Credentials(reqs[i].http)

\* C31: the export of the stored records re-parses, under the standard CSV
\* quoting rules, to the header line followed by one line per stored record
\* whose ten fields are the record's ten values (the empty text for a column
\* without value), commas, quotes and line breaks included.
RECURSIVE ParseFrom(_, _, _, _, _)
ParseFrom(t, quoted, field, rec, recs) ==
    IF t = <<>> THEN Append(recs, Append(rec, field))
    ELSE IF quoted
    THEN IF Head(t) # Quote THEN ParseFrom(Tail(t), TRUE, Append(field, Head(t)), rec, recs)
         ELSE IF Len(t) > 1 /\ t[2] = Quote
              THEN ParseFrom(Tail(Tail(t)), TRUE, Append(field, Quote), rec, recs)
              ELSE ParseFrom(Tail(t), FALSE, field, rec, recs)
    ELSE CASE Head(t) = Quote -> ParseFrom(Tail(t), TRUE, field, rec, recs)
           [] Head(t) = Comma -> ParseFrom(Tail(t), FALSE, <<>>, Append(rec, field), recs)
           [] Head(t) = NewLine -> ParseFrom(Tail(t), FALSE, <<>>, <<>>, Append(recs, Append(rec, field)))
           [] OTHER -> ParseFrom(Tail(t), FALSE, Append(field, Head(t)), rec, recs)
ParseCsv(t) == ParseFrom(t, FALSE, <<>>, <<>>, <<>>)
TextOf(v) == IF v = NoText THEN <<>> ELSE v
StoredRows == IF readScoresBackend = "file" THEN file.arr ELSE remote.arr
C31_ExportRoundTrips ==
    \A i \in 1..Len(reqs) :
        (reqs[i].kind = "export" /\ ~reqs[i].faulted)
        => ParseCsv(reqs[i].resp) =
              <<[k \in 1..Len(headers) |-> <<headers[k]>>]>>
              \o [j \in 1..Len(StoredRows) |->
                     [k \in 1..Len(headers) |-> TextOf(StoredRows[j][headers[k]])]]

\* C32: the store never holds two records with the same name: a submission
\* by a name that has a submission in flight, or one answered success since
\* the last clear, adds no second record.
C32_OneRecordPerName ==
    \A k, l \in 1..Len(ListAll) : k # l => ListAll[k].name # ListAll[l].name

\* C33: once a clear-scores has been answered success, listAll holds no
\* record whose append was answered success before that clear was received,
\* whatever submissions were in flight meanwhile.  (Stated for the
\* submissions that overlapped no other request, which were answered before
\* any later request was received, and whose record no other submission
\* carries.)
OwnRecord(i) == \A k \in 1..Len(reqs) : (k # i /\ reqs[k].kind = "submit") => reqs[k].rec # reqs[i].rec
C33_ClearedRecordsStayCleared ==
    \A i, j \in 1..Len(reqs) :
        (/\ i < j
         /\ reqs[i].kind = "submit" /\ reqs[i].resp = "success" /\ reqs[i].alone /\ OwnRecord(i)
         /\ reqs[j].kind = "clear" /\ reqs[j].resp = "success")
        => ~Holds(ListAll, reqs[i].rec)

\* C34: a write the object-store backend executes for an append never
\* removes a record: every record of the stored array before the append's
\* PutObject succeeds is in the stored array after it, also when the
\* append's own GetObject had failed.
S3AppendWrites(i) ==
    /\ i \in 1..Len(reqs)
    /\ reqs[i].kind = "submit" /\ reqs[i].backend = "s3" /\ reqs[i].pc = "write"
    /\ reqs'[i].pc = "wrote" /\ reqs'[i].result = "ok"
C34_S3AppendKeepsRecords ==
    [][\A i \in 1..MaxReq :
         (S3AppendWrites(i) /\ remote.st = "ok")
         => \A k \in 1..Len(remote.arr) : Holds(remote'.arr, remote.arr[k])]_vars

\* Longer runs of requests served one at a time, with restarts in between.
MaxReqLong == 4
Long == Lim(MaxReqLong, 1)
NextLong == Startup \/ Handlers(Payloads, Long) \/ Restart(Long)
SpecLong == Init /\ [][NextLong]_vars

\* C35: once a submission by a name has been answered success on a durable
\* backend, every status check for that name received after it answers
\* completed = true as long as no clear-scores has been received, also after
\* restarts of the process, when no call to the backend failed.
NoCallFailed == \A k \in 1..Len(reqs) : ~reqs[k].faulted
C35_CompletedStaysCompleted ==
    (NoClearReceived /\ NoCallFailed)
    => \A i, j \in 1..Len(reqs) :
          (/\ i < j
           /\ reqs[i].kind = "submit" /\ reqs[i].resp = "success"
           /\ Remote(reqs[i].backend)
           /\ reqs[j].kind = "status" /\ reqs[j].name = reqs[i].name
           /\ reqs[j].resp \notin {"none", "dropped"})
          => reqs[j].resp = "true"

\* ------------------------------------------------------ POST /admin-login
\* server.js 491-504: with the configured credentials in the body the
\* handler sets the admin_auth cookie and redirects to /scores.html.
AdminLogin(user, pass, lim) ==
    /\ CanReceive(lim)
    /\ LET r0 == [NewReq("login", NoName, [user |-> user, pass |-> pass]) EXCEPT
                     !.http = [NoHttp EXCEPT !.method = "POST",
                                             !.path = Path("admin-login", ""),
                                             !.client = "browser"]]
       IN  IF ~AdminConfigured THEN Receive([r0 EXCEPT !.resp = "404"])
           ELSE IF user = ADMIN_USER /\ pass = ADMIN_PASS
           THEN Receive([r0 EXCEPT !.resp = "redirect /scores.html",
                                   !.setCookie = setCookie(user, pass)])
           ELSE Receive([r0 EXCEPT !.resp = "redirect /admin-login?error=1"])
    /\ UNCHANGED <<handles, now, remote, file, completedUsers, clients, sent>>

\* A browser logs in and visits the pages: it sends the admin_auth cookie
\* only when a login has set it.
AdminsLogin == Admins \cup {"padded1"}
Users == {<<>>, <<"a">>}
Passwords == {<<>>, <<"b">>, <<"b", "c">>, <<"b", "c", "c">>}
Jar == {reqs[k].setCookie : k \in 1..Len(reqs)} \ {NoCookie}
Browsing == Lim(MaxReqSeq, 1)
InitLogin ==
    /\ env \in {[e EXCEPT !.ADMIN = a] : e \in EnvsHealthy, a \in AdminsLogin}
    /\ booted = FALSE
    /\ pool = FALSE /\ firestore = FALSE /\ s3Client = FALSE
    /\ initFailed = {}
    /\ ensured = "none"
    /\ now = 1
    /\ remote = IF PoolCreated(env) \/ FirestoreCreated(env) \/ S3ClientCreated(env)
                THEN Store("ok", <<Leftover>>) ELSE NoStore
    /\ file = Store("ok", <<Leftover>>)
    /\ completedUsers = {}
    /\ reqs = <<>>
    /\ clients = [c \in 1..MaxClients |-> "absent"]
    /\ sent = <<>>
NextLogin ==
    \/ Startup
    \/ \E user \in Users, pass \in Passwords : AdminLogin(user, pass, Browsing)
    \/ \E q \in HttpRequests, ok \in BOOLEAN :
          /\ q.authorization = "none" /\ q.client = "browser"
          /\ q.cookie = "token" => CookieHeader(q) \in Jar
          /\ Serve(q, ok, Browsing)
    \/ \E i \in 1..Len(reqs), ok \in BOOLEAN : BackendExecutes(i, ok)
    \/ \E i \in 1..Len(reqs), ok \in BOOLEAN : ClearSnapshotReturns(i, ok)
    \/ \E i \in 1..Len(reqs) : ClearReturns(i)
    \/ \E i \in 1..Len(reqs), ok \in BOOLEAN : ListReturns(i, ok)
SpecLogin == InitLogin /\ [][NextLogin]_vars

\* C36: after a POST /admin-login with the configured user and password, a
\* request to a protected path that carries the admin_auth cookie the login
\* set is admitted by adminAuthMiddleware, whatever characters the cookie's
\* value contains.
C36_IssuedCookieIsAdmitted ==
    \A i, j \in 1..Len(reqs) :
        (/\ i < j
         /\ reqs[i].kind = "login" /\ reqs[i].setCookie # NoCookie
         /\ CookieHeader(reqs[j].http) = reqs[i].setCookie
         /\ needsAuth(reqs[j].http.path))
        => adminAuthMiddleware(reqs[j].http) = "next" /\ reqs[j].resp \notin {"401", "redirect"}

\* ------------------------------------------------------ migrate_scores.js
\* vals of migrate (migrate_scores.js 53) for record s read at time t.
migrateVals(s, t) ==
    Record(s.name, OrElse(s.id, t), OrNull(s.score),
           OrNull(s.answeredQuestions), OrNull(s.receivedAt))

\* INSERT ... ON CONFLICT (id) DO NOTHING (migrate_scores.js 50-54) against
\* table t: name is NOT NULL, and a row whose id is in the table is skipped.
pgInsertOrSkip(t, row) ==
    IF row.name = NoName THEN WriteResult(FALSE, t)
    ELSE IF row.id \in Ids(t.arr) THEN WriteResult(TRUE, t)
    ELSE WriteResult(TRUE, Store("ok", Append(t.arr, row)))

\* The script is started (migrate_scores.js 6-13, 34-44): it exits at once
\* without DATABASE_URL, without a file or with an empty array, and when the
\* file is not JSON.  rows is the table the run leaves behind.
MaxRuns == 2
MigrateStarts ==
    /\ NoneInFlight /\ Len(reqs) < MaxRuns
    /\ LET r0 == [NewReq("migrate", NoName, NoRecord) EXCEPT !.rows = remote.arr]
       IN  IF env.DATABASE_URL = "unset" THEN Receive([r0 EXCEPT !.resp = "exit 1"])
           ELSE IF file.st = "none" THEN Receive([r0 EXCEPT !.resp = "exit 0"])
           ELSE IF file.st = "corrupt" THEN Receive([r0 EXCEPT !.resp = "exit 2"])
           ELSE IF file.arr = <<>> THEN Receive([r0 EXCEPT !.resp = "exit 0"])
           ELSE Receive([r0 EXCEPT !.pc = "ensure", !.arr = file.arr,
                                   !.backend = "postgres"])
    /\ UNCHANGED <<handles, now, remote, file, completedUsers, clients, sent>>

\* ensureTable returns or fails (migrate_scores.js 15-31, 46, 65).
MigrateEnsured(i, ok) ==
    /\ reqs[i].kind = "migrate" /\ reqs[i].pc = "ensure"
    /\ remote' = IF ok /\ remote.st = "none" THEN EmptyStore ELSE remote
    /\ IF ok THEN Set(i, [reqs[i] EXCEPT !.pc = "insert"])
       ELSE Set(i, [reqs[i] EXCEPT !.pc = "done", !.resp = "exit 2", !.faulted = TRUE,
                                   !.rows = remote.arr])
    /\ UNCHANGED <<handles, now, file, completedUsers, clients, sent>>

\* One turn of the loop (migrate_scores.js 48-59) at time t: a failed query
\* is logged and the loop goes on.
MigrateInserts(i, t, ok) ==
    /\ reqs[i].kind = "migrate" /\ reqs[i].pc = "insert" /\ reqs[i].arr # <<>>
    /\ LET w == IF ok THEN pgInsertOrSkip(remote, migrateVals(Head(reqs[i].arr), t))
                ELSE WriteResult(FALSE, remote)
       IN  /\ remote' = w.store
           /\ Set(i, [reqs[i] EXCEPT !.arr = Tail(@), !.faulted = @ \/ ~ok,
                                     !.result = IF w.ok THEN "ok" ELSE "err"])
    /\ now' = t
    /\ UNCHANGED <<handles, file, completedUsers, clients, sent>>

\* The loop is over (migrate_scores.js 61-62).
MigrateExits(i) ==
    /\ reqs[i].kind = "migrate" /\ reqs[i].pc = "insert" /\ reqs[i].arr = <<>>
    /\ Set(i, [reqs[i] EXCEPT !.pc = "done", !.resp = "exit 0", !.rows = remote.arr])
    /\ UNCHANGED <<handles, now, remote, file, completedUsers, clients, sent>>

\* The script run up to MaxRuns times, one run after the other, over a
\* scores.json of up to MaxMigrated records that have or lack an id and a
\* name, into a table that is missing, empty or holds a row.
MaxMigrated == 2
FileRecords ==
    {Record(n, i, Null, Null, Null) : n \in {"alice", NoName}, i \in {Null, 0, MaxClock + 3}}
FilesMigrated ==
    {NoStore, Store("corrupt", <<>>)}
    \cup {Store("ok", arr) : arr \in UNION {[1..n -> FileRecords] : n \in 0..MaxMigrated}}
InitMigrate ==
    /\ env \in {Env("valid", "unset", FALSE), Env("unset", "unset", FALSE)}
    /\ booted = FALSE
    /\ pool = FALSE /\ firestore = FALSE /\ s3Client = FALSE
    /\ initFailed = {}
    /\ ensured = "none"
    /\ now = 1
    /\ remote \in {NoStore, EmptyStore, Store("ok", <<Leftover>>)}
    /\ file \in FilesMigrated
    /\ completedUsers = {}
    /\ reqs = <<>>
    /\ clients = [c \in 1..MaxClients |-> "absent"]
    /\ sent = <<>>
NextMigrate ==
    \/ MigrateStarts
    \/ \E i \in 1..Len(reqs), ok \in BOOLEAN : MigrateEnsured(i, ok)
    \/ \E i \in 1..Len(reqs), t \in now..MaxClock, ok \in BOOLEAN : MigrateInserts(i, t, ok)
    \/ \E i \in 1..Len(reqs) : MigrateExits(i)
SpecMigrate == InitMigrate /\ [][NextMigrate]_vars

\* C37: a second run of the migration over the same scores.json leaves the
\* scores table with exactly the rows the first run left, whatever records
\* the file holds, records without an id among them (runs none of whose
\* queries failed).
Migrated(i) == reqs[i].kind = "migrate" /\ reqs[i].resp = "exit 0" /\ ~reqs[i].faulted
C37_MigrationIsIdempotent ==
    \A i, j \in 1..Len(reqs) :
        (i < j /\ Migrated(i) /\ Migrated(j)) => reqs[j].rows = reqs[i].rows

====
